---- MODULE Spec2Model ----
(***************************************************************************)
(* Model of secret_tests/driver.py: the grading harness that loads a       *)
(* student's VisitAnalyzer, runs the registry of scenarios against it and  *)
(* appends a report block to report.txt.                                   *)
(*                                                                         *)
(* Units: "CostPerMinute" and "Average Duration" cells are integers in     *)
(* thousandths (33.333 is 33333); every other numeric cell is in natural   *)
(* units.  The missing value and the infinite value are the two integers   *)
(* NaN and Inf, outside the range of every real cell.                      *)
(***************************************************************************)
EXTENDS Integers, Sequences, FiniteSets, TLC

(* ------------------------------------------------------------------ *)
(* Bounds of the exploration                                           *)
(* ------------------------------------------------------------------ *)
\* number of times the script is launched
MaxRuns == 2
\* number of scenarios, over all launches, in which the student code misbehaves
MaxFaults == 1

(* ------------------------------------------------------------------ *)
(* Tables (pandas DataFrame) and the values a method can return        *)
(* ------------------------------------------------------------------ *)
\* a method that returns None
NoneResult == [none |-> TRUE]

IsNone(r) == "columns" \notin DOMAIN r

\* the missing cell (None / NaN) and the infinite cell
NaN == -999999

Inf == 999999

RangeIndex(n) == [k \in 1..n |-> k - 1]

Frame(cols, rws) == [columns |-> cols, index |-> RangeIndex(Len(rws)), rows |-> rws]

Reindexed(df, idx) == [df EXCEPT !.index = idx]

VisitCols == <<"PatientID", "Department", "Duration", "Charges">>

HasCol(df, c) == \E k \in 1..Len(df.columns) : df.columns[k] = c

ColPos(df, c) == CHOOSE k \in 1..Len(df.columns) : df.columns[k] = c

\* result[c] for an existing column: the cells of the column, in row order
Column(df, c) == [r \in 1..Len(df.rows) |-> df.rows[r][ColPos(df, c)]]

\* result.reset_index(drop=True)
ResetIndex(df) == [df EXCEPT !.index = RangeIndex(Len(df.rows))]

IsNum(v) == v # NaN /\ v # Inf

Abs(x) == IF x < 0 THEN -x ELSE x

RECURSIVE SelectRows(_, _, _)
\* result[result[c] == v]: the rows whose cell in column c equals v, in order
SelectRows(rws, pos, v) ==
    IF rws = <<>> THEN <<>>
    ELSE IF Head(rws)[pos] = v
         THEN <<Head(rws)>> \o SelectRows(Tail(rws), pos, v)
         ELSE SelectRows(Tail(rws), pos, v)

\* Series.round(2) on a cell held in thousandths (ties go to the even digit)
Round2(v) ==
    IF ~IsNum(v) THEN v
    ELSE LET q == v \div 10
             r == v % 10
         IN  IF r < 5 THEN q * 10
             ELSE IF r > 5 THEN (q + 1) * 10
             ELSE IF q % 2 = 0 THEN q * 10 ELSE (q + 1) * 10

\* numpy.isclose on one pair: |a - b| <= atol + rtol * |b|, atol 1e-8, rtol 1e-5
IsClose(a, b) ==
    IF IsNum(a) /\ IsNum(b) THEN Abs(a - b) <= (1 + Abs(b)) \div 100000
    ELSE a = Inf /\ b = Inf

RECURSIVE SeqMax(_)
\* the first cell of a column sorted in descending order (missing values last)
SeqMax(col) ==
    IF Len(col) = 1 THEN col[1]
    ELSE LET m == SeqMax(Tail(col))
             h == Head(col)
         IN  IF h = NaN THEN m
             ELSE IF m = NaN THEN h
             ELSE IF h = Inf \/ m = Inf THEN Inf
             ELSE IF h >= m THEN h ELSE m

SeqToSet(sq) == {sq[k] : k \in 1..Len(sq)}

\* the columns of dtype object; a missing cell of such a column is the string "nan"
StringCols == {"Department"}

\* result.isnull().values.any()
AnyNull(df) ==
    \E r \in 1..Len(df.rows) : \E c \in 1..Len(df.rows[r]) :
        IF df.columns[c] \in StringCols THEN df.rows[r][c] = "nan" ELSE df.rows[r][c] = NaN

(* ------------------------------------------------------------------ *)
(* Exceptions                                                          *)
(* ------------------------------------------------------------------ *)
NoExc == [cls |-> "none"]

\* an exception the handler `except Exception` catches
Raise(stage, msg) == [cls |-> "Exception", stage |-> stage, msg |-> msg]

\* SystemExit, KeyboardInterrupt, ...: BaseException but not Exception
RaiseBase(stage, msg) == [cls |-> "BaseException", stage |-> stage, msg |-> msg]

Raised(e) == e.cls # "none"

\* the tolerance of the grouped-average check, 0.1 in thousandths
Tolerance == 100

(* ------------------------------------------------------------------ *)
(* The comparison strategies, lines 132-153.  Each yields NoExc when   *)
(* every assertion holds and the exception raised otherwise.           *)
(* ------------------------------------------------------------------ *)
CheckCols(result, case) ==
    IF IsNone(result) THEN Raise("compare", "'NoneType' object has no attribute 'columns'")
    ELSE IF result.columns = case.expected_cols THEN NoExc
    ELSE Raise("compare", "")

\* pd.testing.assert_frame_equal(..., check_dtype=False) on the two re-indexed frames
CheckFrame(result, case) ==
    IF IsNone(result) THEN Raise("compare", "'NoneType' object has no attribute 'reset_index'")
    ELSE LET l == ResetIndex(result)
             r == ResetIndex(case.expected)
         IN  IF Len(l.rows) # Len(r.rows) \/ Len(l.columns) # Len(r.columns)
             THEN Raise("compare", "DataFrame shape mismatch")
             ELSE IF l.index # r.index THEN Raise("compare", "DataFrame.index are different")
             ELSE IF l.columns # r.columns THEN Raise("compare", "DataFrame.columns are different")
             ELSE IF l.rows # r.rows THEN Raise("compare", "DataFrame values are different")
             ELSE NoExc

CheckValues(result, case) ==
    IF IsNone(result) THEN Raise("compare", "'NoneType' object is not subscriptable")
    ELSE IF ~HasCol(result, "CostPerMinute") THEN Raise("compare", "'CostPerMinute'")
    ELSE LET c   == Column(result, "CostPerMinute")
             col == [k \in 1..Len(c) |-> Round2(c[k])]
             ex  == case.expected_values
         IN  IF Len(col) # Len(ex) /\ Len(col) # 1 /\ Len(ex) # 1
             THEN Raise("compare", "operands could not be broadcast together")
             ELSE LET n == IF Len(col) > Len(ex) THEN Len(col) ELSE Len(ex)
                      a(k) == IF Len(col) = 1 THEN col[1] ELSE col[k]
                      b(k) == IF Len(ex) = 1 THEN ex[1] ELSE ex[k]
                  IN  IF \A k \in 1..n : IsClose(a(k), b(k)) THEN NoExc
                      ELSE Raise("compare", "")

CheckIds(result, case) ==
    IF IsNone(result) THEN Raise("compare", "'NoneType' object is not subscriptable")
    ELSE IF ~HasCol(result, "PatientID") THEN Raise("compare", "'PatientID'")
    ELSE IF SeqToSet(Column(result, "PatientID")) = SeqToSet(case.expected_ids) THEN NoExc
    ELSE Raise("compare", "")

\* the comparison of line 145 with <= in place of <
CheckDeptInclusive(result, dept, expected_avg) ==
    IF ~HasCol(result, "Department") THEN Raise("compare", "'Department'")
    ELSE LET sel == SelectRows(result.rows, ColPos(result, "Department"), dept)
         IN  IF ~HasCol(result, "Average Duration") THEN Raise("compare", "'Average Duration'")
             ELSE IF sel = <<>>
             THEN Raise("compare", "index 0 is out of bounds for axis 0 with size 0")
             ELSE LET actual == sel[1][ColPos(result, "Average Duration")]
                  IN  IF IsNum(actual) /\ Abs(actual - expected_avg) <= Tolerance THEN NoExc
                      ELSE Raise("compare", "")

\* line 144-145 for one department: the first row of the department decides
CheckDept(result, dept, expected_avg) ==
    IF ~HasCol(result, "Department") THEN Raise("compare", "'Department'")
    ELSE LET sel == SelectRows(result.rows, ColPos(result, "Department"), dept)
         IN  IF ~HasCol(result, "Average Duration") THEN Raise("compare", "'Average Duration'")
             ELSE IF sel = <<>>
             THEN Raise("compare", "index 0 is out of bounds for axis 0 with size 0")
             ELSE LET actual == sel[1][ColPos(result, "Average Duration")]
                  IN  IF IsNum(actual) /\ Abs(actual - expected_avg) < Tolerance THEN NoExc
                      ELSE Raise("compare", "")

RECURSIVE CheckDictFrom(_, _, _)
\* the loop of line 143 over the items of expected_dict, in insertion order
CheckDictFrom(result, items, k) ==
    IF k > Len(items) THEN NoExc
    ELSE LET e == CheckDept(result, items[k][1], items[k][2])
         IN  IF Raised(e) THEN e ELSE CheckDictFrom(result, items, k + 1)

CheckDict(result, case) ==
    IF IsNone(result) THEN
        IF case.expected_dict = <<>> THEN NoExc
        ELSE Raise("compare", "'NoneType' object is not subscriptable")
    ELSE CheckDictFrom(result, case.expected_dict, 1)

CheckLen(result, case) ==
    IF IsNone(result) THEN Raise("compare", "object of type 'NoneType' has no len()")
    ELSE IF Len(result.rows) # case.expected_len THEN Raise("compare", "")
    ELSE IF AnyNull(result) THEN Raise("compare", "")
    ELSE IF ~HasCol(result, "Charges") THEN Raise("compare", "'Charges'")
    ELSE IF result.rows = <<>>
         THEN Raise("compare", "single positional indexer is out-of-bounds")
    ELSE IF SeqMax(Column(result, "Charges")) = case.expected_top_charge THEN NoExc
    ELSE Raise("compare", "")

CheckInfNan(result, case) ==
    IF IsNone(result) THEN Raise("compare", "'NoneType' object is not subscriptable")
    ELSE IF ~HasCol(result, "CostPerMinute") THEN Raise("compare", "'CostPerMinute'")
    ELSE LET col == Column(result, "CostPerMinute")
         IN  IF \E k \in 1..Len(col) : col[k] = NaN THEN Raise("compare", "")
             ELSE IF \E k \in 1..Len(col) : col[k] = Inf THEN Raise("compare", "")
             ELSE NoExc

\* the keys of the if/elif chain, in the order the chain tests them
Chain ==
    <<"expected_cols", "expected", "expected_values", "expected_ids",
      "expected_dict", "expected_len", "check_for_inf_or_nan">>

RECURSIVE FirstKey(_, _)
FirstKey(case, k) ==
    IF k > Len(Chain) THEN "none"
    ELSE IF Chain[k] \in DOMAIN case THEN Chain[k]
    ELSE FirstKey(case, k + 1)

\* the branch of the chain a case takes: the first key it declares
Strategy(case) == FirstKey(case, 1)

\* lines 132-153: NoExc when the case passes, else the exception raised
Compare(result, case) ==
    LET s == Strategy(case)
    IN  IF s = "expected_cols" THEN CheckCols(result, case)
        ELSE IF s = "expected" THEN CheckFrame(result, case)
        ELSE IF s = "expected_values" THEN CheckValues(result, case)
        ELSE IF s = "expected_ids" THEN CheckIds(result, case)
        ELSE IF s = "expected_dict" THEN CheckDict(result, case)
        ELSE IF s = "expected_len" THEN CheckLen(result, case)
        ELSE IF s = "check_for_inf_or_nan" THEN CheckInfNan(result, case)
        ELSE NoExc

(* ------------------------------------------------------------------ *)
(* The case registry, lines 26-119                                     *)
(* ------------------------------------------------------------------ *)
TC1 ==
    [id |-> "TC1", desc |-> "Creating patient visit DataFrame", func |-> "create_visit_df",
     input |-> [tuple |-> FALSE,
                data |-> <<<<101, "Cardiology", 45, 1500>>, <<102, "Neurology", 30, 1200>>>>],
     expected_cols |-> <<"PatientID", "Department", "Duration", "Charges">>]

TC2 ==
    [id |-> "TC2", desc |-> "Computing total charges per patient",
     func |-> "total_charges_per_patient",
     input |-> [tuple |-> FALSE,
                data |-> Frame(VisitCols, <<<<101, "Cardiology", 45, 1500>>,
                                            <<101, "Cardiology", 50, 1800>>>>)],
     expected |-> Frame(<<"PatientID", "Total Charges">>, <<<<101, 3300>>>>)]

TC3 ==
    [id |-> "TC3", desc |-> "Adding cost per minute column", func |-> "add_cost_per_minute",
     input |-> [tuple |-> FALSE,
                data |-> Frame(VisitCols, <<<<101, "Cardiology", 45, 1500>>,
                                            <<102, "Neurology", 30, 1200>>>>)],
     expected_values |-> <<33330, 40000>>]

TC4 ==
    [id |-> "TC4", desc |-> "Filtering frequent visitors correctly", func |-> "frequent_visitors",
     input |-> [tuple |-> TRUE,
                data |-> <<Frame(VisitCols, <<<<201, "Cardiology", 45, 1500>>,
                                              <<202, "Cardiology", 50, 1800>>,
                                              <<201, "Cardiology", 40, 1600>>,
                                              <<203, "Neurology", 30, 1200>>>>), 1>>],
     expected_ids |-> <<201>>]

TC5 ==
    [id |-> "TC5", desc |-> "Calculating department-level average duration",
     func |-> "average_duration_per_department",
     input |-> [tuple |-> FALSE,
                data |-> Frame(VisitCols, <<<<101, "Cardiology", 40, 1500>>,
                                            <<102, "Cardiology", 50, 1800>>,
                                            <<103, "Neurology", 30, 1200>>>>)],
     expected_dict |-> <<<<"Cardiology", 45000>>, <<"Neurology", 30000>>>>]

HTC1 ==
    [id |-> "HTC1", desc |-> "Cleaning nulls and sorting by charges",
     func |-> "clean_and_sort_visits",
     input |-> [tuple |-> FALSE,
                data |-> Frame(VisitCols, <<<<101, "Cardiology", NaN, 1500>>,
                                            <<102, "Neurology", 30, 1700>>,
                                            <<103, "Ortho", 35, 1400>>,
                                            <<104, "Cardiology", NaN, 1000>>,
                                            <<105, "Ortho", 32, 1300>>>>)],
     expected_len |-> 3, expected_top_charge |-> 1700]

\* HTC2 with its expectation key misspelt
HTC2_MisspeltKey ==
    [id |-> "HTC2", desc |-> "Handling zero duration edge case in cost/min calc",
     func |-> "add_cost_per_minute",
     input |-> [tuple |-> FALSE,
                data |-> Frame(VisitCols, <<<<101, "Cardiology", 0, 1500>>,
                                            <<102, "Neurology", 30, 1200>>>>)],
     check_for_inf_or_nans |-> TRUE]

HTC2 ==
    [id |-> "HTC2", desc |-> "Handling zero duration edge case in cost/min calc",
     func |-> "add_cost_per_minute",
     input |-> [tuple |-> FALSE,
                data |-> Frame(VisitCols, <<<<101, "Cardiology", 0, 1500>>,
                                            <<102, "Neurology", 30, 1200>>>>)],
     check_for_inf_or_nan |-> TRUE]

HTC3 ==
    [id |-> "HTC3", desc |-> "Correct filtering logic for visit frequency",
     func |-> "frequent_visitors",
     input |-> [tuple |-> TRUE,
                data |-> <<Frame(VisitCols, <<<<101, "A", 10, 100>>, <<102, "B", 20, 200>>,
                                              <<102, "C", 30, 300>>, <<103, "D", 40, 400>>>>),
                           1>>],
     expected_ids |-> <<102>>]

\* the list of (section, case) pairs
test_cases ==
    <<<<"Visible", TC1>>, <<"Visible", TC2>>, <<"Visible", TC3>>, <<"Visible", TC4>>,
      <<"Visible", TC5>>, <<"Hidden", HTC1>>, <<"Hidden", HTC2>>, <<"Hidden", HTC3>>>>

NumCases == Len(test_cases)

Section(k) == test_cases[k][1]

Case(k) == test_cases[k][2]

\* the keys of a case that are keys of the chain
ExpectationKeys(case) == {Chain[k] : k \in 1..Len(Chain)} \cap DOMAIN case

(* ------------------------------------------------------------------ *)
(* The student's code: an external collaborator.  What it returns for  *)
(* a scenario is drawn from a few tables per scenario, correct ones    *)
(* and wrong ones.                                                     *)
(* ------------------------------------------------------------------ *)
CpmCols == <<"PatientID", "Department", "Duration", "Charges", "CostPerMinute">>

AvgCols == <<"Department", "Average Duration">>

\* deviations (thousandths) from the expected averages of TC5: Cardiology, Neurology
Deviations ==
    {<<0, 0>>, <<99, 0>>, <<-99, 0>>, <<100, 0>>, <<-100, 0>>, <<101, 0>>, <<-101, 0>>,
     <<0, 99>>, <<0, -100>>, <<0, 101>>, <<99, -99>>, <<100, 100>>}

AvgFrame(c, n) == Frame(AvgCols, <<<<"Cardiology", c>>, <<"Neurology", n>>>>)

\* the values the method of scenario k may return
Returns(k) ==
    CASE k = 1 -> {Frame(VisitCols, TC1.input.data),
                   Frame(<<"Department", "PatientID", "Duration", "Charges">>,
                         <<<<"Cardiology", 101, 45, 1500>>, <<"Neurology", 102, 30, 1200>>>>),
                   NoneResult}
      [] k = 2 -> {TC2.expected,
                   Reindexed(TC2.expected, <<101>>),
                   Frame(<<"PatientID", "Total Charges">>, <<<<101, 3301>>>>),
                   Frame(<<"PatientID", "Total Charges">>, <<<<101, 1500>>, <<101, 1800>>>>),
                   Frame(<<"PatientID", "Charges">>, <<<<101, 3300>>>>)}
      [] k = 3 -> {Frame(CpmCols, <<<<101, "Cardiology", 45, 1500, 33333>>,
                                    <<102, "Neurology", 30, 1200, 40000>>>>),
                   Frame(CpmCols, <<<<101, "Cardiology", 45, 1500, 33335>>,
                                    <<102, "Neurology", 30, 1200, 40000>>>>),
                   Frame(CpmCols, <<<<101, "Cardiology", 45, 1500, 33333>>>>),
                   TC3.input.data}
      [] k = 4 -> {Frame(VisitCols, <<<<201, "Cardiology", 45, 1500>>,
                                      <<201, "Cardiology", 40, 1600>>>>),
                   Frame(<<"PatientID">>, <<<<201>>>>),
                   TC4.input.data[1]}
      [] k = 5 -> {AvgFrame(45000 + d[1], 30000 + d[2]) : d \in Deviations}
                  \cup {Frame(AvgCols, <<<<"Cardiology", 45000>>>>),
                        Frame(AvgCols, <<<<"Cardiology", 45000>>, <<"Cardiology", 50000>>,
                                         <<"Neurology", 30000>>>>),
                        Frame(AvgCols, <<<<"Cardiology", 50000>>, <<"Cardiology", 45000>>,
                                         <<"Neurology", 30000>>>>),
                        AvgFrame(NaN, 30000),
                        NoneResult}
      [] k = 6 -> {Frame(VisitCols, <<<<102, "Neurology", 30, 1700>>, <<103, "Ortho", 35, 1400>>,
                                      <<105, "Ortho", 32, 1300>>>>),
                   HTC1.input.data,
                   Frame(VisitCols, <<<<101, "Cardiology", NaN, 1500>>,
                                      <<102, "Neurology", 30, 1700>>,
                                      <<103, "Ortho", 35, 1400>>>>),
                   Frame(VisitCols, <<<<101, "Cardiology", 0, 1500>>, <<103, "Ortho", 35, 1400>>,
                                      <<105, "Ortho", 32, 1300>>>>)}
      [] k = 7 -> {Frame(CpmCols, <<<<101, "Cardiology", 0, 1500, 0>>,
                                    <<102, "Neurology", 30, 1200, 40000>>>>),
                   Frame(CpmCols, <<<<101, "Cardiology", 0, 1500, Inf>>,
                                    <<102, "Neurology", 30, 1200, 40000>>>>),
                   Frame(CpmCols, <<<<101, "Cardiology", 0, 1500, NaN>>,
                                    <<102, "Neurology", 30, 1200, 40000>>>>)}
      [] k = 8 -> {Frame(VisitCols, <<<<102, "B", 20, 200>>, <<102, "C", 30, 300>>>>),
                   HTC3.input.data[1]}
      [] OTHER -> {NoneResult}

\* what the student's code does in a scenario when nothing done earlier
\* interferes, stage by stage: the constructor returns or raises, the method
\* exists or not, the call returns a right or a wrong value or raises
CtorPlans == {"ok", "ctor_exc", "ctor_base"}

AttrPlans == {"ok", "no_attr"}

CallPlans == {"ok", "call_exc", "call_base", "wrong"}

\* the student classes explored: a stateless one that prints; one that keeps
\* state on the instance (a method refuses an instance already used) and prints;
\* and a silent one that keeps state on the class (a singleton: the constructor
\* refuses to build a second instance)
Students ==
    {[state |-> "none", prints |-> TRUE],
     [state |-> "instance", prints |-> TRUE],
     [state |-> "class", prints |-> FALSE]}

NoStudent == [state |-> "none", prints |-> FALSE]

StudentLine(where) == [kind |-> "student", from |-> where]

(* ------------------------------------------------------------------ *)
(* The state of the harness                                            *)
(* ------------------------------------------------------------------ *)
VARIABLES
    pc,            \* position in the script
    run,           \* number of launches so far
    dirExists,     \* student_workspace exists
    file,          \* report.txt, as the sequence of the elements written to it
    student,       \* the loaded student module's class
    classCount,    \* the student class's count of the instances it built
    report_lines,  \* the in-memory report buffer
    i,             \* position of the loop in test_cases
    plan,          \* the student's behaviour in the scenario under way
    analyzer,      \* the instance bound to `analyzer`
    method,        \* the bound method, once resolved
    result,        \* the value bound to `result`
    exc,           \* the exception in flight
    msg,           \* the line bound to `msg`
    stdout,        \* the target of sys.stdout
    old_target,    \* the target redirect_stdout saved on entry
    console,       \* the lines this launch wrote to the original standard output
    sink,          \* the StringIO that stands in for sys.stdout
    faults         \* scenarios in which the student code misbehaved so far

vars ==
    <<pc, run, dirExists, file, student, classCount, report_lines, i, plan, analyzer,
      method, result, exc, msg, stdout, old_target, console, sink, faults>>

NoAnalyzer == [calls |-> -1]

NoMsg == [kind |-> "none"]

\* line 24: the header element; the launch number stands for the local time
Header(t) == [kind |-> "header", time |-> t]

\* line 155
PassMsg(case) == [kind |-> "pass", id |-> case.id, desc |-> case.desc]

\* line 157
FailMsg(case, e) == [kind |-> "fail", id |-> case.id, desc |-> case.desc, reason |-> e.msg]

\* a handler that catches assertion failures of the comparison only
HandlerCompareOnly(e) ==
    IF e.cls = "Exception" /\ e.stage = "compare" THEN "except" ELSE "crashed"

\* lines 122 and 156: where an exception raised inside the try goes
Handler(e) == IF e.cls = "Exception" THEN "except" ELSE "crashed"

\* the instance built once, for the first scenario, and used for all
KeptAnalyzer(old) == IF old.calls < 0 THEN [calls |-> 0] ELSE old

\* line 123: Analyzer() binds a new instance, whatever was bound before
NewAnalyzer(old) == [calls |-> 0]

\* the target put back only when the block is left normally
NotRestoredOnRaise(saved, e) == IF Raised(e) THEN "sink" ELSE saved

\* lines 11-12: leaving redirect_stdout puts back the target saved on entry
RestoredTarget(saved, e) == saved

\* mode "w"
OpenTruncate(old, block) == block

\* line 161: mode "a"
OpenAppend(old, block) == old \o block

Init ==
    /\ pc = "idle"
    /\ run = 0
    /\ dirExists = FALSE
    /\ file = <<>>
    /\ student = NoStudent
    /\ classCount = 0
    /\ report_lines = <<>>
    /\ i = 0
    /\ plan = "ok"
    /\ analyzer = NoAnalyzer
    /\ method = FALSE
    /\ result = NoneResult
    /\ exc = NoExc
    /\ msg = NoMsg
    /\ stdout = "console"
    /\ old_target = "console"
    /\ console = <<>>
    /\ sink = <<>>
    /\ faults = 0

\* the write to standard output left out
ConsoleAfterSilent(line) == console

\* print(...) and any other write to sys.stdout: the line goes to the current target
ConsoleAfter(line) == IF stdout = "console" THEN Append(console, line) ELSE console

SinkAfter(line) == IF stdout = "sink" THEN Append(sink, line) ELSE sink

\* lines 164-166 and 15-17: the script is launched as a new process
Main ==
    /\ pc \in {"idle", "done", "aborted", "crashed"}
    /\ run < MaxRuns
    /\ run' = run + 1
    /\ dirExists' = TRUE
    /\ pc' = "load"
    /\ student' = NoStudent
    /\ classCount' = 0
    /\ report_lines' = <<>>
    /\ i' = 0
    /\ plan' = "ok"
    /\ analyzer' = NoAnalyzer
    /\ method' = FALSE
    /\ result' = NoneResult
    /\ exc' = NoExc
    /\ msg' = NoMsg
    /\ stdout' = "console"
    /\ old_target' = "console"
    /\ console' = <<>>
    /\ sink' = <<>>
    /\ UNCHANGED <<file, faults>>

\* lines 19-22, the module loads and defines VisitAnalyzer
LoadModule ==
    /\ pc = "load"
    /\ \E st \in Students :
        /\ student' = st
        /\ console' = IF st.prints THEN ConsoleAfter(StudentLine("import")) ELSE console
    /\ pc' = "header"
    /\ UNCHANGED <<run, dirExists, file, classCount, report_lines, i, plan, analyzer, method,
                   result, exc, msg, stdout, old_target, sink, faults>>

\* a load failure after the header has been put into the report file
LoadFailsAfterHeader ==
    /\ pc = "load"
    /\ \E cause \in {"missing_file", "import_error", "no_class"} :
        exc' = Raise("load", cause)
    /\ file' = Append(file, Header(run))
    /\ pc' = "aborted"
    /\ UNCHANGED <<run, dirExists, student, classCount, report_lines, i, plan, analyzer,
                   method, result, msg, stdout, old_target, console, sink, faults>>

\* lines 19-22, one of them raises: nothing catches it and the process ends
LoadFails ==
    /\ pc = "load"
    /\ \E cause \in {"missing_file", "import_error", "no_class"}, p \in BOOLEAN :
        /\ exc' = Raise("load", cause)
        /\ console' = IF p /\ cause # "missing_file"
                      THEN ConsoleAfter(StudentLine("import")) ELSE console
    /\ pc' = "aborted"
    /\ UNCHANGED <<run, dirExists, file, student, classCount, report_lines, i, plan, analyzer,
                   method, result, msg, stdout, old_target, sink, faults>>

\* line 24
StartReport ==
    /\ pc = "header"
    /\ report_lines' = <<Header(run)>>
    /\ i' = 1
    /\ pc' = "loop"
    /\ UNCHANGED <<run, dirExists, file, student, classCount, plan, analyzer, method, result,
                   exc, msg, stdout, old_target, console, sink, faults>>

\* line 121, a case is left: the loop binds it and enters the try
NextCase ==
    /\ pc = "loop"
    /\ i <= NumCases
    /\ plan' = "ok"
    /\ pc' = "construct"
    /\ UNCHANGED <<run, dirExists, file, student, classCount, report_lines, i, analyzer, method,
                   result, exc, msg, stdout, old_target, console, sink, faults>>

\* line 121, the list is exhausted
LoopExit ==
    /\ pc = "loop"
    /\ i > NumCases
    /\ pc' = "write"
    /\ UNCHANGED <<run, dirExists, file, student, classCount, report_lines, i, plan, analyzer,
                   method, result, exc, msg, stdout, old_target, console, sink, faults>>

\* the student class is a singleton that has built its instance
QuotaReached == student.state = "class" /\ classCount > 0

\* the student's constructor, behaving as p when the class lets it
CtorRaises(p) ==
    IF QuotaReached THEN Raise("construct", "instance limit reached")
    ELSE IF p = "ctor_exc" THEN Raise("construct", "constructor failed")
    ELSE IF p = "ctor_base" THEN RaiseBase("construct", "exit")
    ELSE NoExc

\* the behaviours explored at a stage: a misbehaviour only while the budget of
\* faults lasts, and none where the student's state decides alone
Choices(plans, decided) ==
    IF decided \/ faults >= MaxFaults THEN {"ok"} ELSE plans

FaultsAfter(p) == IF p # "ok" THEN faults + 1 ELSE faults

\* Analyzer() called outside the try: its exception leaves the loop
ConstructOutsideTry ==
    /\ pc = "construct"
    /\ console' = IF student.prints THEN ConsoleAfter(StudentLine("ctor")) ELSE console
    /\ sink' = IF student.prints THEN SinkAfter(StudentLine("ctor")) ELSE sink
    /\ \E p \in Choices(CtorPlans, QuotaReached) :
        /\ plan' = p
        /\ faults' = FaultsAfter(p)
        /\ IF Raised(CtorRaises(p))
           THEN /\ exc' = CtorRaises(p)
                /\ pc' = "crashed"
                /\ UNCHANGED <<analyzer, classCount>>
           ELSE /\ analyzer' = NewAnalyzer(analyzer)
                /\ classCount' = IF student.state = "class" THEN classCount + 1
                                  ELSE classCount
                /\ pc' = "resolve"
                /\ UNCHANGED exc
    /\ UNCHANGED <<run, dirExists, file, student, report_lines, i, method, result, msg,
                   stdout, old_target>>

\* line 123
Construct ==
    /\ pc = "construct"
    /\ console' = IF student.prints THEN ConsoleAfter(StudentLine("ctor")) ELSE console
    /\ sink' = IF student.prints THEN SinkAfter(StudentLine("ctor")) ELSE sink
    /\ \E p \in Choices(CtorPlans, QuotaReached) :
        /\ plan' = p
        /\ faults' = FaultsAfter(p)
        /\ IF Raised(CtorRaises(p))
           THEN /\ exc' = CtorRaises(p)
                /\ pc' = Handler(CtorRaises(p))
                /\ UNCHANGED <<analyzer, classCount>>
           ELSE /\ analyzer' = NewAnalyzer(analyzer)
                /\ classCount' = IF student.state = "class" THEN classCount + 1
                                  ELSE classCount
                /\ pc' = "resolve"
                /\ UNCHANGED exc
    /\ UNCHANGED <<run, dirExists, file, student, report_lines, i, method, result, msg,
                   stdout, old_target>>

\* line 124
Resolve ==
    /\ pc = "resolve"
    /\ \E p \in Choices(AttrPlans, FALSE) :
        /\ plan' = p
        /\ faults' = FaultsAfter(p)
        /\ IF p = "no_attr"
           THEN /\ exc' = Raise("resolve", "'VisitAnalyzer' object has no attribute")
                /\ pc' = Handler(exc')
                /\ UNCHANGED method
           ELSE /\ method' = TRUE
                /\ pc' = "enter"
                /\ UNCHANGED exc
    /\ UNCHANGED <<run, dirExists, file, student, classCount, report_lines, i, analyzer,
                   result, msg, stdout, old_target, console, sink>>

\* lines 125 and 10-11: redirect_stdout(StringIO()) is entered
EnterSuppress ==
    /\ pc = "enter"
    /\ old_target' = stdout
    /\ stdout' = "sink"
    /\ sink' = <<>>
    /\ pc' = "invoke"
    /\ UNCHANGED <<run, dirExists, file, student, classCount, report_lines, i, plan, analyzer,
                   method, result, exc, msg, console, faults>>

\* the instance at hand has served a call before
InstanceUsed == student.state = "instance" /\ analyzer.calls > 0

\* the student's method, behaving as p when the instance lets it
MethodRaises(p) ==
    IF InstanceUsed THEN Raise("invoke", "instance already used")
    ELSE IF p = "call_exc" THEN Raise("invoke", "method failed")
    ELSE IF p = "call_base" THEN RaiseBase("invoke", "exit")
    ELSE NoExc

\* lines 126-129
Invoke ==
    /\ pc = "invoke"
    /\ console' = IF student.prints THEN ConsoleAfter(StudentLine("method")) ELSE console
    /\ sink' = IF student.prints THEN SinkAfter(StudentLine("method")) ELSE sink
    /\ analyzer' = IF student.state = "instance"
                   THEN [analyzer EXCEPT !.calls = @ + 1] ELSE analyzer
    /\ \E p \in Choices(CallPlans, InstanceUsed) :
        /\ plan' = p
        /\ faults' = FaultsAfter(p)
        /\ IF Raised(MethodRaises(p))
           THEN /\ exc' = MethodRaises(p)
                /\ UNCHANGED result
           ELSE /\ \E r \in Returns(i) :
                    /\ (p = "wrong") <=> Raised(Compare(r, Case(i)))
                    /\ result' = r
                /\ UNCHANGED exc
    /\ pc' = "exit"
    /\ UNCHANGED <<run, dirExists, file, student, classCount, report_lines, i, method,
                   msg, stdout, old_target>>

\* lines 11-12 and 125: the with block is left, normally or by an exception
ExitSuppress ==
    /\ pc = "exit"
    /\ stdout' = RestoredTarget(old_target, exc)
    /\ sink' = <<>>
    /\ pc' = IF Raised(exc) THEN Handler(exc) ELSE "compare"
    /\ UNCHANGED <<run, dirExists, file, student, classCount, report_lines, i, plan, analyzer,
                   method, result, exc, msg, old_target, console, faults>>

\* lines 132-155
CompareResult ==
    /\ pc = "compare"
    /\ LET e == Compare(result, Case(i))
       IN  IF Raised(e)
           THEN /\ exc' = e
                /\ pc' = Handler(e)
                /\ UNCHANGED msg
           ELSE /\ msg' = PassMsg(Case(i))
                /\ pc' = "emit"
                /\ UNCHANGED exc
    /\ UNCHANGED <<run, dirExists, file, student, classCount, report_lines, i, plan, analyzer,
                   method, result, stdout, old_target, console, sink, faults>>

\* a handler that runs the failed scenario again
ExceptRetries ==
    /\ pc = "except"
    /\ exc' = NoExc
    /\ pc' = "construct"
    /\ UNCHANGED <<run, dirExists, file, student, classCount, report_lines, i, plan, analyzer,
                   method, result, msg, stdout, old_target, console, sink, faults>>

\* lines 156-157
Except ==
    /\ pc = "except"
    /\ msg' = FailMsg(Case(i), exc)
    /\ exc' = NoExc
    /\ pc' = "emit"
    /\ UNCHANGED <<run, dirExists, file, student, classCount, report_lines, i, plan, analyzer,
                   method, result, stdout, old_target, console, sink, faults>>

\* lines 158-159, and the loop moves on; result, method and plan are dead
\* from here on and are bound again before their next use
Emit ==
    /\ pc = "emit"
    /\ console' = ConsoleAfter(msg)
    /\ sink' = SinkAfter(msg)
    /\ report_lines' = Append(report_lines, msg)
    /\ i' = i + 1
    /\ plan' = "ok"
    /\ method' = FALSE
    /\ result' = NoneResult
    /\ pc' = "loop"
    /\ UNCHANGED <<run, dirExists, file, student, classCount, analyzer, exc, msg, stdout,
                   old_target, faults>>

\* lines 161-162
WriteReport ==
    /\ pc = "write"
    /\ file' = OpenAppend(file, report_lines)
    /\ pc' = "done"
    /\ UNCHANGED <<run, dirExists, student, classCount, report_lines, i, plan, analyzer, method,
                   result, exc, msg, stdout, old_target, console, sink, faults>>

Next ==
    \/ Main
    \/ LoadModule
    \/ LoadFails
    \/ StartReport
    \/ NextCase
    \/ LoopExit
    \/ Construct
    \/ Resolve
    \/ EnterSuppress
    \/ Invoke
    \/ ExitSuppress
    \/ CompareResult
    \/ Except
    \/ Emit
    \/ WriteReport

Spec == Init /\ [][Next]_vars

(* ------------------------------------------------------------------ *)
(* Derived notions used by the properties                              *)
(* ------------------------------------------------------------------ *)
\* the statements inside the try of lines 122-155
TryStages == {"construct", "resolve", "invoke", "compare"}

IsScenarioLine(l) == l.kind \in {"pass", "fail"}

\* the scenario lines of the buffer: everything after the header element
ScenarioLines(buf) == IF buf = <<>> THEN <<>> ELSE Tail(buf)

\* the state of scenario k in the launch under way
Status(k) ==
    IF k < i THEN (IF report_lines[k + 1].kind = "pass" THEN "Passed" ELSE "Failed")
    ELSE IF k = i /\ pc \in {"construct", "resolve", "enter", "invoke", "exit", "compare",
                            "except", "emit", "crashed"}
    THEN "Running"
    ELSE "Pending"

\* the outcome of a scenario run on its own, on a freshly loaded module
SoloKind(p) == IF p = "ok" THEN "pass" ELSE "fail"

(* ------------------------------------------------------------------ *)
(* Properties                                                          *)
(* ------------------------------------------------------------------ *)

\* C1 as stated: whatever is raised while a scenario is handled (constructing,
\* resolving, invoking, comparing) is caught: it is on its way to the handler
\* (still leaving the with block, or in the except clause), never out of the run.
C1_EveryRaiseIsCaught ==
    (Raised(exc) /\ exc.stage \in TryStages) => pc \in {"exit", "except"}

\* C1 amended: an exception that derives from Exception, raised at any of the
\* four stages of scenario i, reaches the except clause, becomes the Fail line
\* of scenario i carrying the exception's message, the line is appended to the
\* buffer, and the loop goes on to scenario i+1 or, after the last one, to the
\* report write.
C1_ExceptionBecomesFailLine ==
    [][ /\ (Raised(exc') /\ exc'.cls = "Exception" /\ exc'.stage \in TryStages)
              => (pc' \in {"exit", "except"} /\ i' = i)
        /\ (pc = "exit" /\ Raised(exc) /\ exc.cls = "Exception") => pc' = "except"
        /\ pc = "except"
              => (pc' = "emit" /\ i' = i /\ msg' = FailMsg(Case(i), exc)
                  /\ msg'.reason = exc.msg /\ msg'.id = Case(i).id)
        /\ (pc = "emit" /\ msg.kind = "fail")
              => (report_lines' = Append(report_lines, msg) /\ i' = i + 1 /\ pc' = "loop")
        /\ (pc = "loop" /\ i <= NumCases) => (pc' = "construct" /\ i' = i)
        /\ (pc = "loop" /\ i > NumCases) => pc' = "write"
        /\ pc = "write" => pc' = "done"
      ]_vars

\* C1 witness: a finished launch whose block holds the Fail line of a scenario
\* whose method raised, followed by the Pass line of the next scenario
C1_Witness ==
    /\ pc = "done"
    /\ \E k \in 1..(NumCases - 1) :
        /\ report_lines[k + 1].kind = "fail"
        /\ report_lines[k + 1].reason = "method failed"
        /\ report_lines[k + 2].kind = "pass"

\* C2: a launch whose load fails ends there: between the launch and the failure
\* the report file keeps its content, the buffer is never created, no scenario
\* is entered and no scenario line reaches the console.
C2_LoadFailureWritesNothing ==
    [][ /\ (pc = "load" /\ Raised(exc')) => pc' = "aborted"
        /\ pc' \in {"load", "aborted"}
              => /\ file' = file
                 /\ report_lines' = <<>>
                 /\ i' = 0
                 /\ \A k \in 1..Len(console') : ~IsScenarioLine(console'[k])
        /\ pc = "aborted" => pc' = "load"
      ]_vars

\* C2 witness: a second launch aborted at load, with the first launch's block
\* still the whole content of the file
C2_Witness ==
    /\ pc = "aborted"
    /\ exc.msg = "no_class"
    /\ run = MaxRuns
    /\ Len(file) = NumCases + 1

\* C3: within a launch every scenario goes Pending -> Running -> Passed or
\* Failed, a scenario is entered only from the loop head (never a second time),
\* a recorded line is never changed, and the block a finished launch appends is
\* the header followed by one line per scenario, in registry order.
C3_OneLinePerScenarioInOrder ==
    [][ run' = run =>
          /\ \A k \in 1..NumCases :
                \/ Status(k)' = Status(k)
                \/ <<Status(k), Status(k)'>> \in
                      {<<"Pending", "Running">>, <<"Running", "Passed">>,
                       <<"Running", "Failed">>}
          /\ pc' = "construct" => (pc = "loop" /\ Status(i) = "Pending" /\ i' = i)
          /\ \A k \in 1..Len(report_lines) :
                Len(report_lines') >= k /\ report_lines'[k] = report_lines[k]
          /\ pc' = "done"
                => /\ Len(report_lines) = NumCases + 1
                   /\ report_lines[1].kind = "header"
                   /\ \A k \in 1..NumCases :
                        /\ IsScenarioLine(report_lines[k + 1])
                        /\ report_lines[k + 1].id = Case(k).id
                        /\ report_lines[k + 1].desc = Case(k).desc
                   /\ SubSeq(file', Len(file) + 1, Len(file')) = report_lines
      ]_vars

\* C3 witness: a finished launch with both outcomes in its block
C3_Witness ==
    /\ pc = "done"
    /\ \E k \in 1..NumCases : Status(k) = "Passed"
    /\ \E k \in 1..NumCases : Status(k) = "Failed"

\* C4: the report file changes in exactly one step of a launch, the write that
\* ends it after the last scenario, and that step appends the launch's block to
\* the content the file had: earlier blocks stay, unchanged and in order.
C4_ReportAppendedOnceAtEnd ==
    [][ /\ file' # file <=> (pc = "write" /\ pc' = "done")
        /\ pc = "write" => (i = NumCases + 1 /\ file' = file \o report_lines)
        /\ pc' = "write" => (pc = "loop" /\ Len(report_lines) = NumCases + 1)
        /\ pc = "done" => pc' = "load"
        /\ \A k \in 1..Len(file) : Len(file') >= k /\ file'[k] = file[k]
      ]_vars

\* C4 witness: a launch finished on a file that already held an earlier block
C4_Witness ==
    /\ pc = "done"
    /\ Len(file) = 2 * (NumCases + 1)
    /\ file[1] # file[NumCases + 2]

RECURSIVE IsSubseq(_, _)
\* a occurs in b as a subsequence (same order, other elements may lie between)
IsSubseq(a, b) ==
    IF a = <<>> THEN TRUE
    ELSE IF b = <<>> THEN FALSE
    ELSE IF Head(a) = Head(b) THEN IsSubseq(Tail(a), Tail(b))
    ELSE IsSubseq(a, Tail(b))

\* C5 as stated: every line of the block a launch appends to the report file,
\* the header included, was written to standard output during the launch, in
\* the same order.
C5_ConsoleEchoesWholeBlock ==
    pc = "done" => IsSubseq(report_lines, console)

\* C5 amended: the scenario lines of the block are the scenario lines written to
\* standard output, in the same order (each one printed in the step that
\* appends it to the buffer); the header element is never written to standard
\* output.
C5_ConsoleEchoesScenarioLines ==
    /\ pc \in {"loop", "construct", "resolve", "enter", "invoke", "exit", "compare", "except",
               "emit", "crashed", "write", "done"}
          => SelectSeq(console, IsScenarioLine) = ScenarioLines(report_lines)
    /\ \A k \in 1..Len(console) : console[k].kind # "header"

\* C5 witness: a finished launch of a printing student, with Pass and Fail lines
C5_Witness ==
    /\ pc = "done"
    /\ student.prints
    /\ Len(SelectSeq(console, IsScenarioLine)) = NumCases
    /\ \E k \in 1..Len(console) : console[k].kind = "fail"

\* C6 as stated: a constructor that raises ends the run: it is never handled as
\* a failure of the scenario.
C6_ConstructorFailureIsFatal ==
    (Raised(exc) /\ exc.stage = "construct") => pc \in {"aborted", "crashed"}

\* C6 amended: a constructor that raises an Exception is handled like any other
\* failure of the scenario: the except clause turns it into the scenario's Fail
\* line, and the launch goes on; only a failure of the load (lines 19-22) ends
\* the launch before any scenario.
C6_ConstructorFailureIsPerScenario ==
    [][ /\ (pc = "construct" /\ Raised(exc') /\ exc'.cls = "Exception")
              => (pc' = "except" /\ exc'.stage = "construct")
        /\ (pc = "except" /\ exc.stage = "construct")
              => (pc' = "emit" /\ msg' = FailMsg(Case(i), exc) /\ UNCHANGED report_lines)
        /\ pc' = "aborted" => (pc = "load" /\ exc'.stage = "load")
      ]_vars

\* C6 witness: a finished launch in which the constructor raised for a scenario
\* and a later scenario passed
C6_Witness ==
    /\ pc = "done"
    /\ \E k \in 1..(NumCases - 1) :
        /\ report_lines[k + 1].kind = "fail"
        /\ report_lines[k + 1].reason = "constructor failed"
        /\ report_lines[k + 2].kind = "pass"

\* C7 as stated: for any student implementation the outcome recorded for a
\* scenario is the outcome the scenario has when run on its own.
C7_OutcomeIndependentOfEarlierScenarios ==
    pc = "emit" => msg.kind = SoloKind(plan)

\* C7 amended: for a student class that keeps no state on the class or the
\* module (none at all, or only on the instance), the outcome recorded for a
\* scenario is the outcome the scenario has when run on its own: every scenario
\* gets a new instance and its own input.
C7_OutcomeIndependentWithoutClassState ==
    (pc = "emit" /\ student.state # "class") => msg.kind = SoloKind(plan)

\* C7 witness: a student with state on the instance passes a scenario after
\* earlier scenarios have used instances of the class
C7_Witness ==
    /\ pc = "emit"
    /\ student.state = "instance"
    /\ i > 2
    /\ msg.kind = "pass"
    /\ analyzer.calls = 1

\* the expected departments of a grouped-average case
Depts(case) == {case.expected_dict[k][1] : k \in 1..Len(case.expected_dict)}

ExpectedAvg(case, dept) ==
    LET k == CHOOSE j \in 1..Len(case.expected_dict) : case.expected_dict[j][1] = dept
    IN  case.expected_dict[k][2]

\* a result with exactly one row, holding a number, for every expected department
OneRowPerDept(res, case) ==
    /\ ~IsNone(res)
    /\ res.columns = AvgCols
    /\ \A d \in Depts(case) :
        /\ Len(SelectRows(res.rows, 1, d)) = 1
        /\ IsNum(SelectRows(res.rows, 1, d)[1][2])

\* the absolute deviation of the result's average for dept from the expected one
Deviation(res, case, dept) == Abs(SelectRows(res.rows, 1, dept)[1][2] - ExpectedAvg(case, dept))

\* C8 as stated: the grouped-average check passes exactly the results whose
\* average deviates by at most 0.1 for every expected department (0.1 included).
C8_PassesUpToToleranceInclusive ==
    (pc = "emit" /\ Strategy(Case(i)) = "expected_dict" /\ OneRowPerDept(result, Case(i)))
        => (msg.kind = "pass"
              <=> \A d \in Depts(Case(i)) : Deviation(result, Case(i), d) <= Tolerance)

\* C8 amended: the grouped-average check passes exactly the results whose
\* average deviates by less than 0.1 for every expected department; a deviation
\* of exactly 0.1, or more, for some expected department fails.
C8_PassesBelowTolerance ==
    (pc = "emit" /\ Strategy(Case(i)) = "expected_dict" /\ OneRowPerDept(result, Case(i)))
        => (msg.kind = "pass"
              <=> \A d \in Depts(Case(i)) : Deviation(result, Case(i), d) < Tolerance)

\* C8 witness: a result that is exactly 0.1 off for one department has failed
C8_Witness ==
    /\ pc = "emit"
    /\ Strategy(Case(i)) = "expected_dict"
    /\ OneRowPerDept(result, Case(i))
    /\ \E d \in Depts(Case(i)) : Deviation(result, Case(i), d) = Tolerance
    /\ \A d \in Depts(Case(i)) : Deviation(result, Case(i), d) <= Tolerance
    /\ msg.kind = "fail"

\* what C9 says of the entries of the registry, whatever their number
RegistryEntries ==
    /\ \A k \in 1..NumCases :
        /\ Section(k) \in {"Visible", "Hidden"}
        /\ Section(k) = "Visible" <=> Case(k).id \in {"TC1", "TC2", "TC3", "TC4", "TC5"}
        /\ Section(k) = "Hidden" <=> Case(k).id \in {"HTC1", "HTC2", "HTC3"}
        /\ \A j \in 1..NumCases : Case(j).id = Case(k).id => j = k
        /\ Case(k).func \in {"create_visit_df", "total_charges_per_patient",
                             "add_cost_per_minute", "frequent_visitors",
                             "average_duration_per_department", "clean_and_sort_visits"}
        /\ Cardinality(ExpectationKeys(Case(k))) = 1
        /\ Strategy(Case(k)) \in ExpectationKeys(Case(k))

\* what C9 says of the registry, for a registry of n scenarios
RegistryShape(n) ==
    /\ NumCases = n
    /\ RegistryEntries
    /\ pc = "compare" => Strategy(Case(i)) # "none"

\* C9 as stated: the registry holds nine scenarios, Visible TC1..TC5 and Hidden
\* HTC1..HTC3, with unique ids, one method each and one expectation key each,
\* which selects one branch of the chain.
C9_NineScenarios == RegistryShape(9)

\* C9 amended: the registry holds eight scenarios, five Visible (TC1..TC5) and
\* three Hidden (HTC1..HTC3), with unique ids, one method each and exactly one
\* key of the chain each, so that every comparison takes a branch of the chain.
C9_EightScenarios == RegistryShape(8)

\* C9 witness: the last scenario of the registry is being compared
C9_Witness ==
    /\ pc = "compare"
    /\ i = NumCases
    /\ Strategy(Case(i)) = "expected_ids"

\* C10: standard output is the discarded sink only while the student's method
\* is invoked and the with block is left; everywhere else, in particular when a
\* line is printed and after a method that raised, it is the original target;
\* nothing the method printed is on the console or in the report buffer.
C10_OutputRestoredOnEveryPath ==
    /\ stdout = "sink" <=> pc \in {"invoke", "exit"}
    /\ stdout # "sink" => (stdout = "console" /\ sink = <<>>)
    /\ \A k \in 1..Len(console) : console[k] # StudentLine("method")
    /\ \A k \in 1..Len(report_lines) : report_lines[k].kind # "student"
    /\ \A k \in 1..Len(file) : file[k].kind # "student"

\* C10 witness: the Fail line of a scenario whose method printed and then raised
\* is about to be printed
C10_Witness ==
    /\ pc = "emit"
    /\ student.prints
    /\ msg.kind = "fail"
    /\ msg.reason = "method failed"
    /\ stdout = "console"

====
